---- MODULE Spec2Model ----
(***************************************************************************)
(* Model of the sdcX hands-on OR table demo: the provider                  *)
(* (src/libs/ORTableProvider/main.cpp) with its global virtualTable, the   *)
(* four ExternalControlHandler callbacks, the ValueUpdater background      *)
(* thread and main(), and the operation identifiers the consumer           *)
(* (src/libs/ORTableConsumer/main.cpp) sends.                              *)
(*                                                                         *)
(* Axis values are doubles in the source.  They are represented in tenths  *)
(* (height 80 is 800, trend 39.8 is 398, the angle step 0.1 is 1).         *)
(***************************************************************************)
EXTENDS Integers, Sequences, FiniteSets, TLC

(***************************************************************************)
(* Bounds of the model                                                     *)
(***************************************************************************)
\* the tick counter of the background loop saturates here
MaxTicks == 2
\* the number of characters the consumer's menu loop reads
MaxInputs == 2
MaxParts == 2
MaxLimitStates == 2
MaxSignalStates == 1
MaxJoins == 2

(***************************************************************************)
(* Program constants (tenths)                                              *)
(***************************************************************************)
HeightInit == 800
TrendInit == 398
HeightMin == 600
HeightMax == 1400
TrendMin == -450
TrendMax == 450
TiltMin == -250
TiltMax == 250
BackMin == -400
BackMax == 800
\* alert margins tested by applyAlarms
HeightHiAlarm == 1350
HeightLoAlarm == 650
TrendHiAlarm == 400
TrendLoAlarm == -400
TiltHiAlarm == 200
TiltLoAlarm == -200
BackHiAlarm == 750
BackLoAlarm == -350

\* enum class PredefinedPosition
PredefinedPosition == {"NullLevel", "BeachChair"}

\* struct VirtualORTable
VirtualORTable ==
    [height : Int, trend : Int, tilt : Int, backplate : Int,
     predefinedPosition : PredefinedPosition]

\* The global object "VirtualORTable virtualTable;": static storage is
\* zero-initialised before the default member initialisers run, so tilt and
\* backplate are 0 and predefinedPosition is the enumerator with value 0.
InitialTable ==
    [height |-> HeightInit, trend |-> TrendInit, tilt |-> 0, backplate |-> 0,
     predefinedPosition |-> "NullLevel"]

(***************************************************************************)
(* Operation identifiers, as sent by the consumer's menu                   *)
(***************************************************************************)
IncHeight == "MDC_OR_TABLE_ACTIVATE_INCREASE_TABLE_HEIGHT_SCO"
DecHeight == "MDC_OR_TABLE_ACTIVATE_DECREASE_TABLE_HEIGHT_SCO"
IncTrend == "MDC_OR_TABLE_ACTIVATE_INCREASE_TREND_SCO"
DecTrend == "MDC_OR_TABLE_ACTIVATE_DECREASE_TREND_SCO"
IncTilt == "MDC_OR_TABLE_ACTIVATE_INCREASE_TILT_SCO"
DecTilt == "MDC_OR_TABLE_ACTIVATE_DECREASE_TILT_SCO"
IncBack == "MDC_OR_TABLE_ACTIVATE_INCREASE_BACK_SCO"
DecBack == "MDC_OR_TABLE_ACTIVATE_DECREASE_BACK_SCO"
ApplyPredefined == "MDC_OR_TABLE_ACTIVATE_APPLY_PREDEFINED_POSITION"
SetStringPredefined == "MDC_OR_TABLE_SETSTRING_PREDEFINED_POSITIONS_SCO"

AxisActivateIds ==
    {IncHeight, DecHeight, IncTrend, DecTrend, IncTilt, DecTilt, IncBack, DecBack}

ActivateIds == AxisActivateIds \cup {ApplyPredefined}

\* an operation handle that no menu entry and no handler names
UnknownId == "MDC_OR_TABLE_UNKNOWN_SCO"

\* a set-string value that is not the name of a PredefinedPosition
UnknownValue == "Trendelenburg"

SetStringValues == PredefinedPosition \cup {UnknownValue}

\* The source names no handle for the SetContextState and SetAlertState
\* operations; their handlers run for whatever handle the request carries.
MdibHandle == "handle declared in ORTableMDIB.xml"

(***************************************************************************)
(* Transactions                                                            *)
(***************************************************************************)
InvocationStates == {"Entry", "Wait", "Start", "Fin", "Fail"}

NoTx ==
    [kind |-> "none", id |-> "", value |-> "", state |-> "Entry",
     trail |-> <<"Entry">>, pc |-> "none", error |-> "none",
     before |-> InitialTable]

\* the transaction the stack hands to onNewTransaction: it is in Entry;
\* "before" remembers the virtual table at the time of the call
NewTx(kind, id, value, vt) ==
    [kind |-> kind, id |-> id, value |-> value, state |-> "Entry",
     trail |-> <<"Entry">>, pc |-> "running", error |-> "none",
     before |-> vt]

transitionFromEntryTo(t, target) ==
    IF t.state = "Entry"
    THEN [t EXCEPT !.state = target, !.trail = Append(t.trail, target)]
    ELSE t

transitionFromWaitingTo(t, target) ==
    IF t.state = "Wait"
    THEN [t EXCEPT !.state = target, !.trail = Append(t.trail, target)]
    ELSE t

transitionFromStartedTo(t, target) ==
    IF t.state = "Start"
    THEN [t EXCEPT !.state = target, !.trail = Append(t.trail, target)]
    ELSE t

\* the error texts a failed commit can return (result.getError())
ErrorTexts == {"mdib version conflict", "not connected"}

\* Variables of the provider process:
\*   virtualTable   the global object
\*   tx             the transaction of the request being handled
\*   mainPc, loadResult, registered, providerAlive   main()
\*   exitCode       what main() has returned ("none" while it runs)
\*   updater        the ValueUpdater object: "none", "alive", "destroyed"
\*   m_running, threadPc                             ValueUpdater
\*   joinable       m_thread.joinable()
\*   joinError      m_thread.join() was invoked on a thread that is not
\*                  joinable (std::system_error)
\*   joins          how often m_thread.join() was invoked
\*   commits        the commits made in the current tick, in order
\*   tickLog        what the current tick wrote to std::cout
\*   seen, alarmBranch   the axis values applyAlarms has read in the current
\*                  tick and the branch each margin test took
\* History variables:
\*   selected       the value of the last set-string request for
\*                  SetStringPredefined that the handler has returned from
\*   ticks          the number of ticks started (saturating at MaxTicks)
\*   prevTickFailed whether a commit of the previous tick failed
\* Variables of the consumer process:
\*   cPc            "menu" in the loop, "done" after it
\*   entered        the characters read by std::cin >> input
\*   sent           the requests sent, in order
VARIABLES virtualTable, tx, selected, mainPc, loadResult, registered,
          providerAlive, exitCode, updater, joinable, joinError, joins,
          m_running, threadPc, ticks, commits, tickLog,
          seen, alarmBranch, prevTickFailed, cPc, entered, sent,
          consumerCreated, callbacksRegistered, cLog, cExit, lastReport,
          alertLog

vars == <<virtualTable, tx, selected, mainPc, loadResult, registered,
          providerAlive, exitCode, updater, joinable, joinError, joins,
          m_running, threadPc, ticks, commits, tickLog,
          seen, alarmBranch, prevTickFailed, cPc, entered, sent,
          consumerCreated, callbacksRegistered, cLog, cExit, lastReport,
          alertLog>>

updaterVars == <<updater, joinable, joinError, joins>>
mainVars == <<mainPc, loadResult, registered, providerAlive, exitCode,
              updaterVars>>
threadVars == <<threadPc, ticks, commits, tickLog, seen, alarmBranch,
                prevTickFailed>>
startVars == <<consumerCreated, callbacksRegistered, cLog, cExit>>
alertVars == <<lastReport, alertLog>>
consumerVars == <<cPc, entered, sent, startVars, alertVars>>
providerVars == <<virtualTable, tx, selected, mainVars, m_running,
                  threadVars>>

(***************************************************************************)
(* The four handlers.  Each operator is the effect of one call of          *)
(* onNewTransaction on the virtual table, resp. on the transaction.        *)
(***************************************************************************)
\* ORTableSetStringHandler::onNewTransaction: the body is a comment only
SetStringTable(vt, id, value) == vt

SetStringTx(t) == t

Clamp(x, lo, hi) == IF x < lo THEN lo ELSE IF x > hi THEN hi ELSE x

\* The behaviour the comment in ORTableActivateHandler and the contract
\* describe: the step per axis, kept inside the margins; the predefined
\* position overwrites all four axes.
ContractActivate(vt, id) ==
    IF id = IncHeight
    THEN [vt EXCEPT !.height = Clamp(vt.height + 10, HeightMin, HeightMax)]
    ELSE IF id = DecHeight
    THEN [vt EXCEPT !.height = Clamp(vt.height - 10, HeightMin, HeightMax)]
    ELSE IF id = IncTrend
    THEN [vt EXCEPT !.trend = Clamp(vt.trend + 1, TrendMin, TrendMax)]
    ELSE IF id = DecTrend
    THEN [vt EXCEPT !.trend = Clamp(vt.trend - 1, TrendMin, TrendMax)]
    ELSE IF id = IncTilt
    THEN [vt EXCEPT !.tilt = Clamp(vt.tilt + 1, TiltMin, TiltMax)]
    ELSE IF id = DecTilt
    THEN [vt EXCEPT !.tilt = Clamp(vt.tilt - 1, TiltMin, TiltMax)]
    ELSE IF id = IncBack
    THEN [vt EXCEPT !.backplate = Clamp(vt.backplate + 1, BackMin, BackMax)]
    ELSE IF id = DecBack
    THEN [vt EXCEPT !.backplate = Clamp(vt.backplate - 1, BackMin, BackMax)]
    ELSE IF id = ApplyPredefined
    THEN [vt EXCEPT !.height = 800, !.trend = 0, !.tilt = 0,
                    !.backplate = IF vt.predefinedPosition = "BeachChair"
                                  THEN 450 ELSE 0]
    ELSE vt

\* A handler that moves the axes by one unit and forgets the margins.
ActivateTableUnclamped(vt, id) ==
    IF id = IncHeight THEN [vt EXCEPT !.height = vt.height + 10]
    ELSE IF id = DecHeight THEN [vt EXCEPT !.height = vt.height - 10]
    ELSE IF id = IncTrend THEN [vt EXCEPT !.trend = vt.trend + 10]
    ELSE IF id = DecTrend THEN [vt EXCEPT !.trend = vt.trend - 10]
    ELSE vt

\* A handler whose last branch ("any other activate") takes every handle
\* that is not the predefined-position one, known or not.
ActivateTableAnyOther(vt, id) ==
    IF id = ApplyPredefined THEN vt
    ELSE [vt EXCEPT !.height = Clamp(vt.height + 10, HeightMin, HeightMax)]

\* ORTableActivateHandler::onNewTransaction: the body is a comment only
ActivateTable(vt, id) == vt

ActivateTx(t) == t

\* ORTableSetContextStateHandler::onNewTransaction
SetContextTx(t) ==
    transitionFromStartedTo(
        transitionFromWaitingTo(
            transitionFromEntryTo(t, "Wait"), "Start"), "Fin")

\* ORTableSetAlertStateHandler::onNewTransaction
SetAlertTx(t) ==
    transitionFromStartedTo(
        transitionFromWaitingTo(
            transitionFromEntryTo(t, "Wait"), "Start"), "Fin")

Returned(t) == [t EXCEPT !.pc = "returned"]

(***************************************************************************)
(* ValueUpdater::applyAlarms: the margin tests on the four axes.  Every    *)
(* branch of the source is empty; the operators give the branch taken.     *)
(***************************************************************************)
\* a margin test that leaves out the value 135 itself
HeightBranchStrict(vt) ==
    IF vt.height > HeightHiAlarm /\ vt.height <= HeightMax THEN "high"
    ELSE IF vt.height <= HeightLoAlarm /\ vt.height >= HeightMin THEN "low"
    ELSE "none"

HeightBranch(vt) ==
    IF vt.height >= HeightHiAlarm /\ vt.height <= HeightMax THEN "high"
    ELSE IF vt.height <= HeightLoAlarm /\ vt.height >= HeightMin THEN "low"
    ELSE "none"

TrendBranch(vt) ==
    IF vt.trend >= TrendHiAlarm /\ vt.trend <= TrendMax THEN "high"
    ELSE IF vt.trend <= TrendLoAlarm /\ vt.trend >= TrendMin THEN "low"
    ELSE "none"

TiltBranch(vt) ==
    IF vt.tilt >= TiltHiAlarm /\ vt.tilt <= TiltMax THEN "high"
    ELSE IF vt.tilt <= TiltLoAlarm /\ vt.tilt >= TiltMin THEN "low"
    ELSE "none"

BackBranch(vt) ==
    IF vt.backplate >= BackHiAlarm /\ vt.backplate <= BackMax THEN "high"
    ELSE IF vt.backplate <= BackLoAlarm /\ vt.backplate >= BackMin THEN "low"
    ELSE "none"

(***************************************************************************)
(* Initial state: the program at the start of the provider's main(), the   *)
(* ValueUpdater not yet constructed (m_running is the member initialiser), *)
(* and the consumer at the top of its menu loop.                           *)
(***************************************************************************)
InitThread ==
    /\ m_running = TRUE
    /\ ticks = 0
    /\ commits = <<>>
    /\ tickLog = <<>>
    /\ seen = <<>>
    /\ alarmBranch = <<>>
    /\ prevTickFailed = FALSE

\* an EpisodicAlertReport is the sequence of its report parts; its status is
\* "none" (no report), "inFlight" (sent, onAlert not yet called) or
\* "delivered" (onAlert has returned)
NoReport == [parts |-> <<>>, status |-> "none"]

InitConsumerVars ==
    /\ cPc = "resolve"
    /\ entered = <<>>
    /\ sent = <<>>
    /\ consumerCreated = FALSE
    /\ callbacksRegistered = FALSE
    /\ cLog = <<>>
    /\ cExit = "none"
    /\ lastReport = NoReport
    /\ alertLog = <<>>

Init ==
    /\ virtualTable = InitialTable
    /\ tx = NoTx
    /\ selected = "none"
    /\ mainPc = "loadMdib"
    /\ loadResult = "none"
    /\ registered = FALSE
    /\ providerAlive = TRUE
    /\ exitCode = "none"
    /\ updater = "none"
    /\ joinable = FALSE
    /\ joinError = FALSE
    /\ joins = 0
    /\ threadPc = "notStarted"
    /\ InitThread
    /\ InitConsumerVars

(***************************************************************************)
(* main() of the provider                                                  *)
(***************************************************************************)
\* a catch block that prints the failure and goes on
LoadMdibGoesOn ==
    /\ mainPc = "loadMdib"
    /\ \E r \in {"loaded", "notLoaded", "threw"} :
          /\ loadResult' = r
          /\ mainPc' = "register"
    /\ UNCHANGED <<virtualTable, tx, selected, registered, providerAlive,
                   exitCode, updaterVars, m_running, threadVars,
                   consumerVars>>

\* try { loadMdib } catch: true and false are logged; a throw prints the
\* failure and returns -1, which destroys provider and sdcCore
LoadMdib ==
    /\ mainPc = "loadMdib"
    /\ \E r \in {"loaded", "notLoaded", "threw"} :
          /\ loadResult' = r
          /\ mainPc' = IF r = "threw" THEN "returned" ELSE "register"
          /\ exitCode' = IF r = "threw" THEN "-1" ELSE exitCode
          /\ providerAlive' = (r # "threw")
    /\ UNCHANGED <<virtualTable, tx, selected, registered, updaterVars,
                   m_running, threadVars, consumerVars>>

\* the four register...ExternalControlHandler calls
RegisterHandlers ==
    /\ mainPc = "register"
    /\ registered' = TRUE
    /\ mainPc' = "run"
    /\ UNCHANGED <<virtualTable, tx, selected, loadResult, providerAlive,
                   exitCode, updaterVars, m_running, threadVars,
                   consumerVars>>

\* make_unique<ValueUpdater>, valueUpdater->run(): the thread is created
Run ==
    /\ mainPc = "run"
    /\ updater' = "alive"
    /\ joinable' = TRUE
    /\ threadPc' = "test"
    /\ mainPc' = "waitKey"
    /\ UNCHANGED <<virtualTable, tx, selected, loadResult, registered,
                   providerAlive, exitCode, joinError, joins, m_running,
                   ticks, commits, tickLog, seen, alarmBranch,
                   prevTickFailed, consumerVars>>

\* a cleanup that destroys the provider before it stops the updater
StopAfterReset ==
    /\ mainPc = "waitKey"
    /\ providerAlive' = FALSE
    /\ m_running' = FALSE
    /\ mainPc' = "join"
    /\ UNCHANGED <<virtualTable, tx, selected, loadResult, registered,
                   exitCode, updaterVars, threadVars, consumerVars>>

\* std::cin.get() returns; ValueUpdater::stop() sets the flag
Stop ==
    /\ mainPc = "waitKey"
    /\ m_running' = FALSE
    /\ mainPc' = "join"
    /\ UNCHANGED <<virtualTable, tx, selected, loadResult, registered,
                   providerAlive, exitCode, updaterVars, threadVars,
                   consumerVars>>

\* one more invocation of m_thread.join()
Joined(n) == IF n < MaxJoins THEN n + 1 ELSE n

\* a stop() that sets the flag and detaches instead of joining
JoinNoWait ==
    /\ mainPc = "join"
    /\ mainPc' = "reset"
    /\ joinable' = FALSE
    /\ UNCHANGED <<virtualTable, tx, selected, loadResult, registered,
                   providerAlive, exitCode, updater, joinError, joins,
                   m_running, threadVars, consumerVars>>

\* m_thread.join() returns when the thread function has returned
Join ==
    /\ mainPc = "join"
    /\ threadPc = "exited"
    /\ mainPc' = "reset"
    /\ joinable' = FALSE
    /\ joins' = Joined(joins)
    /\ UNCHANGED <<virtualTable, tx, selected, loadResult, registered,
                   providerAlive, exitCode, updater, joinError, m_running,
                   threadVars, consumerVars>>

\* provider.reset(); sdcCore.reset(); the rest of main up to return 0, where
\* ~ValueUpdater runs: m_running is false after stop(), so it does nothing
Reset ==
    /\ mainPc = "reset"
    /\ providerAlive' = FALSE
    /\ updater' = "destroyed"
    /\ exitCode' = "0"
    /\ mainPc' = "returned"
    /\ UNCHANGED <<virtualTable, tx, selected, loadResult, registered,
                   joinable, joinError, joins, m_running, threadVars,
                   consumerVars>>

(***************************************************************************)
(* The lambda of ValueUpdater::run                                         *)
(***************************************************************************)
Failed(cs) == \E i \in 1..Len(cs) : ~cs[i].success

\* a loop that enters the alarm evaluation first
TestAlarmsFirst ==
    /\ threadPc = "test"
    /\ IF m_running
       THEN /\ threadPc' = "alarmsHeight"
            /\ commits' = <<>>
            /\ tickLog' = <<>>
            /\ seen' = <<>>
            /\ alarmBranch' = <<>>
            /\ prevTickFailed' = Failed(commits)
            /\ ticks' = IF ticks < MaxTicks THEN ticks + 1 ELSE ticks
       ELSE /\ threadPc' = "exited"
            /\ UNCHANGED <<commits, tickLog, seen, alarmBranch,
                           prevTickFailed, ticks>>
    /\ UNCHANGED <<virtualTable, tx, selected, mainVars, m_running,
                   consumerVars>>

\* a loop that starts the next tick without looking at the flag
TestIgnoresFlag ==
    /\ threadPc = "test"
    /\ threadPc' = "applyChanges"
    /\ commits' = <<>>
    /\ tickLog' = <<>>
    /\ seen' = <<>>
    /\ alarmBranch' = <<>>
    /\ prevTickFailed' = Failed(commits)
    /\ ticks' = IF ticks < MaxTicks THEN ticks + 1 ELSE ticks
    /\ UNCHANGED <<virtualTable, tx, selected, mainVars, m_running,
                   consumerVars>>

\* while(m_running): a true flag starts the next tick
Test ==
    /\ threadPc = "test"
    /\ IF m_running
       THEN /\ threadPc' = "applyChanges"
            /\ commits' = <<>>
            /\ tickLog' = <<>>
            /\ seen' = <<>>
            /\ alarmBranch' = <<>>
            /\ prevTickFailed' = Failed(commits)
            /\ ticks' = IF ticks < MaxTicks THEN ticks + 1 ELSE ticks
       ELSE /\ threadPc' = "exited"
            /\ UNCHANGED <<commits, tickLog, seen, alarmBranch,
                           prevTickFailed, ticks>>
    /\ UNCHANGED <<virtualTable, tx, selected, mainVars, m_running,
                   consumerVars>>

\* makeUpdateAccess() gives a new access on every call; the source puts no
\* state update into it before the commit.  r is what commit() returns.
Commit(step, r) ==
    [step |-> step, access |-> Len(commits) + 1, updates |-> {},
     success |-> (r = "ok"), error |-> r]

\* if (!result.success()) std::cout << "Update of values not successful: "
\*                                     + result.getError();
Logged(r) ==
    IF r = "ok" THEN tickLog
    ELSE Append(tickLog, [text |-> "Update of values not successful",
                          error |-> r])

\* applyChanges(): an update access with no change in it is committed
ApplyChanges ==
    /\ threadPc = "applyChanges"
    /\ \E r \in {"ok"} \cup ErrorTexts :
          /\ commits' = Append(commits, Commit("values", r))
          /\ tickLog' = Logged(r)
    /\ threadPc' = "alarmsHeight"
    /\ UNCHANGED <<virtualTable, tx, selected, mainVars, m_running, ticks,
                   seen, alarmBranch, prevTickFailed, consumerVars>>

\* applyAlarms(): the four margin tests, each reading its axis of the
\* global table; every branch is empty
AlarmsHeight ==
    /\ threadPc = "alarmsHeight"
    /\ seen' = Append(seen, virtualTable.height)
    /\ alarmBranch' = Append(alarmBranch, HeightBranch(virtualTable))
    /\ threadPc' = "alarmsTrend"
    /\ UNCHANGED <<virtualTable, tx, selected, mainVars, m_running,
                   ticks, commits, tickLog, prevTickFailed, consumerVars>>

AlarmsTrend ==
    /\ threadPc = "alarmsTrend"
    /\ seen' = Append(seen, virtualTable.trend)
    /\ alarmBranch' = Append(alarmBranch, TrendBranch(virtualTable))
    /\ threadPc' = "alarmsTilt"
    /\ UNCHANGED <<virtualTable, tx, selected, mainVars, m_running,
                   ticks, commits, tickLog, prevTickFailed, consumerVars>>

AlarmsTilt ==
    /\ threadPc = "alarmsTilt"
    /\ seen' = Append(seen, virtualTable.tilt)
    /\ alarmBranch' = Append(alarmBranch, TiltBranch(virtualTable))
    /\ threadPc' = "alarmsBack"
    /\ UNCHANGED <<virtualTable, tx, selected, mainVars, m_running,
                   ticks, commits, tickLog, prevTickFailed, consumerVars>>

AlarmsBack ==
    /\ threadPc = "alarmsBack"
    /\ seen' = Append(seen, virtualTable.backplate)
    /\ alarmBranch' = Append(alarmBranch, BackBranch(virtualTable))
    /\ threadPc' = "alarmsCommit"
    /\ UNCHANGED <<virtualTable, tx, selected, mainVars, m_running,
                   ticks, commits, tickLog, prevTickFailed, consumerVars>>

\* an applyAlarms that commits through the access applyChanges made
AlarmsCommitSharedAccess ==
    /\ threadPc = "alarmsCommit"
    /\ \E r \in {"ok"} \cup ErrorTexts :
          /\ commits' = Append(commits,
                               [Commit("alarms", r) EXCEPT !.access = 1])
          /\ tickLog' = Logged(r)
    /\ threadPc' = "sleep"
    /\ UNCHANGED <<virtualTable, tx, selected, mainVars, m_running,
                   ticks, seen, alarmBranch, prevTickFailed, consumerVars>>

\* an applyAlarms that drops the result of its commit
AlarmsCommitSilent ==
    /\ threadPc = "alarmsCommit"
    /\ \E r \in {"ok"} \cup ErrorTexts :
          commits' = Append(commits, Commit("alarms", r))
    /\ threadPc' = "sleep"
    /\ UNCHANGED <<virtualTable, tx, selected, mainVars, m_running,
                   ticks, tickLog, seen, alarmBranch, prevTickFailed,
                   consumerVars>>

\* the commit at the end of applyAlarms, and its log line
AlarmsCommit ==
    /\ threadPc = "alarmsCommit"
    /\ \E r \in {"ok"} \cup ErrorTexts :
          /\ commits' = Append(commits, Commit("alarms", r))
          /\ tickLog' = Logged(r)
    /\ threadPc' = "sleep"
    /\ UNCHANGED <<virtualTable, tx, selected, mainVars, m_running,
                   ticks, seen, alarmBranch, prevTickFailed, consumerVars>>

ApplyAlarms ==
    \/ AlarmsHeight
    \/ AlarmsTrend
    \/ AlarmsTilt
    \/ AlarmsBack
    \/ AlarmsCommit

\* a loop that gives up after a tick with a failed commit
SleepAbortOnFailure ==
    /\ threadPc = "sleep"
    /\ threadPc' = IF Failed(commits) THEN "exited" ELSE "test"
    /\ UNCHANGED <<virtualTable, tx, selected, mainVars, m_running,
                   ticks, commits, tickLog, seen, alarmBranch,
                   prevTickFailed, consumerVars>>

\* std::this_thread::sleep_for(500ms)
Sleep ==
    /\ threadPc = "sleep"
    /\ threadPc' = "test"
    /\ UNCHANGED <<virtualTable, tx, selected, mainVars, m_running,
                   ticks, commits, tickLog, seen, alarmBranch,
                   prevTickFailed, consumerVars>>

(***************************************************************************)
(* Inbound requests: the stack creates a transaction in Entry and calls    *)
(* the handler registered for the kind of request, one request at a time.  *)
(***************************************************************************)
CanDeliver == registered /\ providerAlive /\ tx.pc # "running"

NewActivate ==
    /\ CanDeliver
    /\ \E id \in ActivateIds \cup {UnknownId} :
          tx' = NewTx("Activate", id, "", virtualTable)
    /\ UNCHANGED <<virtualTable, selected, mainVars, m_running,
                   threadVars, consumerVars>>

NewSetString ==
    /\ CanDeliver
    /\ \E id \in {SetStringPredefined, UnknownId}, value \in SetStringValues :
          tx' = NewTx("SetString", id, value, virtualTable)
    /\ UNCHANGED <<virtualTable, selected, mainVars, m_running,
                   threadVars, consumerVars>>

NewSetContext ==
    /\ CanDeliver
    /\ \E id \in {MdibHandle, UnknownId} :
          tx' = NewTx("SetContext", id, "", virtualTable)
    /\ UNCHANGED <<virtualTable, selected, mainVars, m_running,
                   threadVars, consumerVars>>

NewSetAlert ==
    /\ CanDeliver
    /\ \E id \in {MdibHandle, UnknownId} :
          tx' = NewTx("SetAlert", id, "", virtualTable)
    /\ UNCHANGED <<virtualTable, selected, mainVars, m_running,
                   threadVars, consumerVars>>

HandleActivate ==
    /\ tx.kind = "Activate" /\ tx.pc = "running"
    /\ virtualTable' = ActivateTable(virtualTable, tx.id)
    /\ tx' = Returned(ActivateTx(tx))
    /\ UNCHANGED <<selected, mainVars, m_running, threadVars, consumerVars>>

HandleSetString ==
    /\ tx.kind = "SetString" /\ tx.pc = "running"
    /\ virtualTable' = SetStringTable(virtualTable, tx.id, tx.value)
    /\ tx' = Returned(SetStringTx(tx))
    /\ selected' = IF tx.id = SetStringPredefined THEN tx.value ELSE selected
    /\ UNCHANGED <<mainVars, m_running, threadVars, consumerVars>>

\* a set-context handler that also moves the table to its null level
HandleSetContextResets ==
    /\ tx.kind = "SetContext" /\ tx.pc = "running"
    /\ tx' = Returned(SetContextTx(tx))
    /\ virtualTable' = ContractActivate(virtualTable, ApplyPredefined)
    /\ UNCHANGED <<selected, mainVars, m_running, threadVars, consumerVars>>

HandleSetContext ==
    /\ tx.kind = "SetContext" /\ tx.pc = "running"
    /\ tx' = Returned(SetContextTx(tx))
    /\ UNCHANGED <<virtualTable, selected, mainVars, m_running,
                   threadVars, consumerVars>>

HandleSetAlert ==
    /\ tx.kind = "SetAlert" /\ tx.pc = "running"
    /\ tx' = Returned(SetAlertTx(tx))
    /\ UNCHANGED <<virtualTable, selected, mainVars, m_running,
                   threadVars, consumerVars>>

Next ==
    \/ LoadMdib
    \/ RegisterHandlers
    \/ Run
    \/ Stop
    \/ Join
    \/ Reset
    \/ Test
    \/ ApplyChanges
    \/ ApplyAlarms
    \/ Sleep
    \/ NewActivate
    \/ NewSetString
    \/ NewSetContext
    \/ NewSetAlert
    \/ HandleActivate
    \/ HandleSetString
    \/ HandleSetContext
    \/ HandleSetAlert

Spec == Init /\ [][Next]_vars

\* The background thread is an operating-system thread: once created it
\* keeps being scheduled, and sleep_for returns.  Nothing is assumed of
\* main() (the key press) or of the requests.
ThreadFairness ==
    /\ WF_vars(Test)
    /\ WF_vars(ApplyChanges)
    /\ WF_vars(ApplyAlarms)
    /\ WF_vars(Sleep)

LiveSpec == Spec /\ ThreadFairness

TypeOK ==
    /\ virtualTable \in VirtualORTable
    /\ tx.state \in InvocationStates
    /\ m_running \in BOOLEAN
    /\ ticks \in 0..MaxTicks
    /\ Len(commits) <= 2
    /\ Len(seen) <= 4
    /\ exitCode \in {"none", "-1", "0"}
    /\ updater \in {"none", "alive", "destroyed"}
    /\ joinable \in BOOLEAN
    /\ joinError \in BOOLEAN
    /\ joins \in 0..MaxJoins
    /\ consumerCreated \in BOOLEAN
    /\ callbacksRegistered \in BOOLEAN
    /\ cExit \in {"none", "-1"}
    /\ lastReport.status \in {"none", "inFlight", "delivered"}

(***************************************************************************)
(* The margin tests of applyAlarms as a function of the axis values: the   *)
(* background loop started on tables whose axes are drawn from the points  *)
(* around each margin.                                                     *)
(***************************************************************************)
HeightPoints == <<600, 650, 651, 1000, 1349, 1350, 1360, 1400>>
TrendPoints == <<-450, -400, -399, 0, 399, 400, 410, 450>>
TiltPoints == <<-250, -200, -199, 0, 199, 200, 210, 250>>
BackPoints == <<-400, -350, -349, 200, 749, 750, 760, 800>>

MarginTables ==
    { [height |-> HeightPoints[i], trend |-> TrendPoints[j],
       tilt |-> TiltPoints[i], backplate |-> BackPoints[j],
       predefinedPosition |-> "NullLevel"] : i \in 1..8, j \in 1..8 }

InitAlarms ==
    /\ virtualTable \in MarginTables
    /\ tx = NoTx
    /\ selected = "none"
    /\ mainPc = "waitKey"
    /\ loadResult = "loaded"
    /\ registered = TRUE
    /\ providerAlive = TRUE
    /\ exitCode = "none"
    /\ updater = "alive"
    /\ joinable = TRUE
    /\ joinError = FALSE
    /\ joins = 0
    /\ threadPc = "test"
    /\ InitThread
    /\ InitConsumerVars

NextAlarms ==
    \/ Test
    \/ ApplyChanges
    \/ ApplyAlarms
    \/ Sleep

SpecAlarms == InitAlarms /\ [][NextAlarms]_vars

(***************************************************************************)
(* The ValueUpdater class on its own: a client that holds one constructed  *)
(* ValueUpdater calls run() and stop() in any order and destroys it.       *)
(* mainPc is the client: "client" between two calls, "stop" inside stop()  *)
(* at the join, "dtor" inside the stop() of the destructor, "terminated"   *)
(* after std::terminate or an exception nobody catches.                    *)
(***************************************************************************)
\* ValueUpdater(p_provider): m_running{true}, m_thread default-constructed
InitUpdater ==
    /\ virtualTable = InitialTable
    /\ tx = NoTx
    /\ selected = "none"
    /\ mainPc = "client"
    /\ loadResult = "loaded"
    /\ registered = TRUE
    /\ providerAlive = TRUE
    /\ exitCode = "none"
    /\ updater = "alive"
    /\ joinable = FALSE
    /\ joinError = FALSE
    /\ joins = 0
    /\ threadPc = "notStarted"
    /\ InitThread
    /\ InitConsumerVars

\* run(): m_thread = std::thread(...); the move assignment to a thread that
\* is still joinable is std::terminate
UpdaterRun ==
    /\ mainPc = "client"
    /\ updater = "alive"
    /\ IF joinable
       THEN /\ mainPc' = "terminated"
            /\ UNCHANGED <<joinable, threadPc>>
       ELSE /\ joinable' = TRUE
            /\ threadPc' = "test"
            /\ UNCHANGED mainPc
    /\ UNCHANGED <<virtualTable, tx, selected, loadResult, registered,
                   providerAlive, exitCode, updater, joinError, joins,
                   m_running, ticks, commits, tickLog, seen, alarmBranch,
                   prevTickFailed, consumerVars>>

\* stop(): m_running = false, then the join
UpdaterStop ==
    /\ mainPc = "client"
    /\ updater = "alive"
    /\ m_running' = FALSE
    /\ mainPc' = "stop"
    /\ UNCHANGED <<virtualTable, tx, selected, loadResult, registered,
                   providerAlive, exitCode, updaterVars, threadVars,
                   consumerVars>>

\* m_thread.join() in stop(): on a thread that is not joinable it throws
\* std::system_error; on a joinable one it returns when the loop has returned
UpdaterJoin ==
    /\ mainPc \in {"stop", "dtor"}
    /\ joins' = Joined(joins)
    /\ IF joinable
       THEN /\ threadPc = "exited"
            /\ joinable' = FALSE
            /\ mainPc' = "client"
            /\ updater' = IF mainPc = "dtor" THEN "destroyed" ELSE updater
            /\ UNCHANGED joinError
       ELSE /\ joinError' = TRUE
            /\ mainPc' = "terminated"
            /\ UNCHANGED <<joinable, updater>>
    /\ UNCHANGED <<virtualTable, tx, selected, loadResult, registered,
                   providerAlive, exitCode, m_running, threadVars,
                   consumerVars>>

\* ~ValueUpdater(): if(m_running) stop(); then the members are destroyed,
\* and the destructor of a joinable std::thread is std::terminate
UpdaterDestroy ==
    /\ mainPc = "client"
    /\ updater = "alive"
    /\ IF m_running
       THEN /\ m_running' = FALSE
            /\ mainPc' = "dtor"
            /\ UNCHANGED updater
       ELSE /\ updater' = "destroyed"
            /\ mainPc' = IF joinable THEN "terminated" ELSE mainPc
            /\ UNCHANGED m_running
    /\ UNCHANGED <<virtualTable, tx, selected, loadResult, registered,
                   providerAlive, exitCode, joinable, joinError, joins,
                   threadVars, consumerVars>>

\* the loop of the thread, as long as the process has not been terminated
UpdaterThread ==
    /\ mainPc # "terminated"
    /\ (Test \/ ApplyChanges \/ ApplyAlarms \/ Sleep)

NextUpdater ==
    \/ UpdaterRun
    \/ UpdaterStop
    \/ UpdaterJoin
    \/ UpdaterDestroy
    \/ UpdaterThread

SpecUpdater == InitUpdater /\ [][NextUpdater]_vars

(***************************************************************************)
(* The consumer: the menu loop of its main()                               *)
(***************************************************************************)
\* the characters of the menu, and "x" for any character that is none of them
MenuChars == {"a", "b", "c", "d", "e", "f", "g", "h", "i", "j", "k", "y", "z", "x"}

NoRequest == [api |-> "none", operation |-> "", value |-> ""]

\* sendActivate(operation): one consumer->activate(operation)
sendActivate(operation) ==
    [api |-> "activate", operation |-> operation, value |-> ""]

setStringMetricValue(operation, value) ==
    [api |-> "setStringMetricValue", operation |-> operation, value |-> value]

requestStates ==
    [api |-> "requestStates",
     operation |-> "MDC_OR_TABLE_HEIGHT, MDC_OR_TABLE_TREND, MDC_OR_TABLE_TILT, MDC_OR_TABLE_BACKPLATE",
     value |-> ""]

\* an if-chain whose 'g' branch was copied from 'e' and not edited
MenuRequestCopied(input) ==
    IF input = "a" THEN sendActivate(IncHeight)
    ELSE IF input = "b" THEN sendActivate(DecHeight)
    ELSE IF input = "c" THEN sendActivate(IncTrend)
    ELSE IF input = "d" THEN sendActivate(DecTrend)
    ELSE IF input = "e" THEN sendActivate(IncTilt)
    ELSE IF input = "f" THEN sendActivate(DecTilt)
    ELSE IF input = "g" THEN sendActivate(IncTilt)
    ELSE IF input = "h" THEN sendActivate(DecBack)
    ELSE IF input = "i" THEN setStringMetricValue(SetStringPredefined, "NullLevel")
    ELSE IF input = "j" THEN setStringMetricValue(SetStringPredefined, "BeachChair")
    ELSE IF input = "k" THEN sendActivate(ApplyPredefined)
    ELSE IF input = "y" THEN requestStates
    ELSE NoRequest

\* the if / else-if chain on input: the request the branch taken sends
MenuRequest(input) ==
    IF input = "a" THEN sendActivate(IncHeight)
    ELSE IF input = "b" THEN sendActivate(DecHeight)
    ELSE IF input = "c" THEN sendActivate(IncTrend)
    ELSE IF input = "d" THEN sendActivate(DecTrend)
    ELSE IF input = "e" THEN sendActivate(IncTilt)
    ELSE IF input = "f" THEN sendActivate(DecTilt)
    ELSE IF input = "g" THEN sendActivate(IncBack)
    ELSE IF input = "h" THEN sendActivate(DecBack)
    ELSE IF input = "i" THEN setStringMetricValue(SetStringPredefined, "NullLevel")
    ELSE IF input = "j" THEN setStringMetricValue(SetStringPredefined, "BeachChair")
    ELSE IF input = "k" THEN sendActivate(ApplyPredefined)
    ELSE IF input = "y" THEN requestStates
    ELSE NoRequest

\* what e.what() of the exception caught in main can say
WhatTexts == {"resolve timed out", "connection refused"}

\* a catch block that logs the failure and falls through to the registration
DiscoveryCatchGoesOn(what) ==
    /\ cLog' = Append(cLog, "Discovery failed: " \o what)
    /\ cPc' = "register"
    /\ UNCHANGED <<cExit, consumerCreated>>

\* catch (const std::exception& e): log "Discovery failed: " + what, return -1
DiscoveryCatch(what) ==
    /\ cLog' = Append(cLog, "Discovery failed: " \o what)
    /\ cExit' = "-1"
    /\ cPc' = "returned"
    /\ UNCHANGED consumerCreated

\* discoveryHandler->resolve(TARGET_EPR).waitForResults(): it returns the
\* endpoint, which is logged, or it throws
ConsumerResolve ==
    /\ cPc = "resolve"
    /\ \/ /\ cLog' = Append(cLog, "Found EPR. Connecting to Provider")
          /\ cPc' = "construct"
          /\ UNCHANGED <<cExit, consumerCreated>>
       \/ \E what \in WhatTexts : DiscoveryCatch(what)
    /\ UNCHANGED <<providerVars, entered, sent, callbacksRegistered,
                   alertVars>>

\* consumer = std::make_unique<SDCConsumer>(...): the global consumer is
\* assigned only when the constructor returns
ConsumerConstruct ==
    /\ cPc = "construct"
    /\ \/ /\ consumerCreated' = TRUE
          /\ cPc' = "register"
          /\ UNCHANGED <<cLog, cExit>>
       \/ \E what \in WhatTexts : DiscoveryCatch(what)
    /\ UNCHANGED <<providerVars, entered, sent, callbacksRegistered,
                   alertVars>>

\* createReportingNotifier, the three report callbacks, createSetHandler and
\* the activate response callback
ConsumerRegister ==
    /\ cPc = "register"
    /\ callbacksRegistered' = TRUE
    /\ cPc' = "menu"
    /\ UNCHANGED <<providerVars, entered, sent, consumerCreated, cLog, cExit,
                   alertVars>>

\* one iteration of while(!exit): read a character, take its branch
ConsumerMenu ==
    /\ cPc = "menu"
    /\ Len(entered) < MaxInputs
    /\ \E input \in MenuChars :
          /\ entered' = Append(entered, input)
          /\ sent' = IF MenuRequest(input) = NoRequest THEN sent
                     ELSE Append(sent, MenuRequest(input))
          /\ cPc' = IF input = "z" THEN "done" ELSE "menu"
    /\ UNCHANGED <<providerVars, startVars, alertVars>>

NextConsumer ==
    \/ ConsumerResolve
    \/ ConsumerConstruct
    \/ ConsumerRegister
    \/ ConsumerMenu

SpecConsumer == Init /\ [][NextConsumer]_vars

(***************************************************************************)
(* The consumer: the onAlert callback on one episodic alert report         *)
(***************************************************************************)
SeqsUpTo(S, n) == UNION { [1..k -> S] : k \in 0..n }

LimitAlertConditionStates ==
    { [handle |-> "limit_alert_height", presence |-> b] : b \in BOOLEAN }

AlertSignalPresence == {"On", "Off", "Latch", "Ack"}

AlertSignalStates ==
    { [handle |-> "alert_signal_height", presence |-> p] :
         p \in AlertSignalPresence }

ReportParts ==
    { [limits |-> l, signals |-> g] :
         l \in SeqsUpTo(LimitAlertConditionStates, MaxLimitStates),
         g \in SeqsUpTo(AlertSignalStates, MaxSignalStates) }

Reports == SeqsUpTo(ReportParts, MaxParts)

\* the first loop: one line per limit alert condition state
RECURSIVE LimitLines(_)
LimitLines(l) ==
    IF l = <<>> THEN <<>>
    ELSE <<[kind |-> "limit alert state", handle |-> Head(l).handle,
            presence |-> IF Head(l).presence THEN "true" ELSE "false"]>>
         \o LimitLines(Tail(l))

\* the second loop: one line per alert signal state
RECURSIVE SignalLines(_)
SignalLines(g) ==
    IF g = <<>> THEN <<>>
    ELSE <<[kind |-> "alert signal", handle |-> Head(g).handle,
            presence |-> IF Head(g).presence = "On" THEN "On"
                         ELSE IF Head(g).presence = "Latch" THEN "Latching"
                         ELSE IF Head(g).presence = "Ack" THEN "Acknowledged"
                         ELSE "Off"]>>
         \o SignalLines(Tail(g))

\* an onAlert without the return on an empty limit alert condition list
onAlertNoLimitReturn(parts) ==
    IF parts = <<>> THEN <<>>
    ELSE IF parts[1].signals = <<>> THEN LimitLines(parts[1].limits)
    ELSE LimitLines(parts[1].limits) \o SignalLines(parts[1].signals)

\* onAlert(p_data, p_metadata): the lines it logs
onAlert(parts) ==
    IF parts = <<>> THEN <<>>
    ELSE IF parts[1].limits = <<>> THEN <<>>
    ELSE IF parts[1].signals = <<>> THEN LimitLines(parts[1].limits)
    ELSE LimitLines(parts[1].limits) \o SignalLines(parts[1].signals)

\* the notifier calls the registered onAlert with the report in flight
ConsumerOnAlert ==
    /\ callbacksRegistered
    /\ lastReport.status = "inFlight"
    /\ lastReport' = [lastReport EXCEPT !.status = "delivered"]
    /\ alertLog' = onAlert(lastReport.parts)
    /\ UNCHANGED <<providerVars, cPc, entered, sent, startVars>>

\* the consumer in its menu loop, callbacks registered, one report in flight
InitAlert ==
    /\ virtualTable = InitialTable
    /\ tx = NoTx
    /\ selected = "none"
    /\ mainPc = "loadMdib"
    /\ loadResult = "none"
    /\ registered = FALSE
    /\ providerAlive = TRUE
    /\ exitCode = "none"
    /\ updater = "none"
    /\ joinable = FALSE
    /\ joinError = FALSE
    /\ joins = 0
    /\ threadPc = "notStarted"
    /\ InitThread
    /\ cPc = "menu"
    /\ entered = <<>>
    /\ sent = <<>>
    /\ consumerCreated = TRUE
    /\ callbacksRegistered = TRUE
    /\ cLog = <<"Found EPR. Connecting to Provider">>
    /\ cExit = "none"
    /\ \E parts \in Reports : lastReport = [parts |-> parts, status |-> "inFlight"]
    /\ alertLog = <<>>

NextAlert == ConsumerOnAlert

SpecAlert == InitAlert /\ [][NextAlert]_vars

(***************************************************************************)
(* Properties                                                              *)
(***************************************************************************)
Handled(kind) == tx.kind = kind /\ tx.pc = "returned"

AxesOf(vt) == <<vt.height, vt.trend, vt.tilt, vt.backplate>>

\* C1: in every reachable state of the provider the four axes are inside
\* their ranges: height in [60,140], trend in [-45,45], tilt in [-25,25],
\* backplate in [-40,80].
C1_AxesInRange ==
    /\ virtualTable.height >= HeightMin /\ virtualTable.height <= HeightMax
    /\ virtualTable.trend >= TrendMin /\ virtualTable.trend <= TrendMax
    /\ virtualTable.tilt >= TiltMin /\ virtualTable.tilt <= TiltMax
    /\ virtualTable.backplate >= BackMin /\ virtualTable.backplate <= BackMax

\* an increase-trend activate has been handled after a synchronizer tick
C1_Witness ==
    /\ Handled("Activate") /\ tx.id = IncTrend
    /\ ticks >= 1
    /\ C1_AxesInRange

\* C2: after an increase/decrease activate has been handled, the table is
\* the table before the call with the one axis moved by its step and clamped,
\* the other axes and predefinedPosition as before.
C2_ActivateAdjustsAxis ==
    (Handled("Activate") /\ tx.id \in AxisActivateIds)
        => virtualTable = ContractActivate(tx.before, tx.id)

\* C3: when a handler has returned, its transaction has gone through Entry,
\* Wait, Start, Fin in that order, skipping none and never moving back.
C3_FullSequence ==
    (tx.kind # "none" /\ tx.pc = "returned")
        => tx.trail = <<"Entry", "Wait", "Start", "Fin">>

\* C4: no handler returns leaving its transaction in Entry, Wait or Start:
\* a handled transaction is in a terminal state (Fin or Fail).
C4_TerminalOnReturn ==
    (tx.kind # "none" /\ tx.pc = "returned") => tx.state \in {"Fin", "Fail"}

\* C5: after the apply-predefined-position activate has been handled with
\* predefinedPosition NullLevel, height is 80 and trend, tilt, backplate are 0.
C5_ApplyNullLevel ==
    (/\ Handled("Activate") /\ tx.id = ApplyPredefined
     /\ tx.before.predefinedPosition = "NullLevel")
        => AxesOf(virtualTable) = <<800, 0, 0, 0>>

\* C6: after BeachChair has been selected by set-string and the
\* apply-predefined-position activate has been handled, height is 80, trend
\* and tilt are 0 and backplate is 45.
C6_ApplyBeachChair ==
    (/\ Handled("Activate") /\ tx.id = ApplyPredefined
     /\ selected = "BeachChair")
        => AxesOf(virtualTable) = <<800, 0, 0, 450>>

\* C7: after set-string on MDC_OR_TABLE_SETSTRING_PREDEFINED_POSITIONS_SCO
\* with "NullLevel" or "BeachChair" has been handled, predefinedPosition is
\* that value and the four axes are as before the call.
C7_SetStringSelects ==
    (/\ Handled("SetString") /\ tx.id = SetStringPredefined
     /\ tx.value \in PredefinedPosition)
        => /\ virtualTable.predefinedPosition = tx.value
           /\ AxesOf(virtualTable) = AxesOf(tx.before)

\* C8: a set-string whose value is no predefined position ends rejected with
\* an invalid-value outcome, the virtual table as before the call.
C8_InvalidValueRejected ==
    (Handled("SetString") /\ tx.value \notin PredefinedPosition)
        => /\ tx.state = "Fail"
           /\ tx.error = "InvalidValue"
           /\ virtualTable = tx.before

\* C9: an operation with an unrecognized identifier ends rejected with an
\* unsupported-operation outcome and its transaction never enters Wait,
\* Start or Fin.
C9_UnsupportedRejected ==
    (tx.pc = "returned" /\ tx.id = UnknownId)
        => /\ tx.state = "Fail"
           /\ tx.error = "UnsupportedOperation"
           /\ \A i \in 1..Len(tx.trail) :
                 tx.trail[i] \notin {"Wait", "Start", "Fin"}

\* C10: after an operation with an unsupported identifier has been handled,
\* the virtual table (four axes and predefinedPosition) is the table before
\* the call.
C10_UnsupportedNoMutation ==
    (tx.pc = "returned" /\ tx.id = UnknownId) => virtualTable = tx.before

\* an activate with an unknown handle has been handled
C10_Witness ==
    /\ Handled("Activate") /\ tx.id = UnknownId
    /\ virtualTable = tx.before

\* an axis value lies within 5 units of one of its limits
Near(v, lo, hi) == hi - v <= 50 \/ v - lo <= 50

\* C11: for each axis and each axis value, the margin test of applyAlarms
\* takes an alert branch iff limit_hi - value <= 5 or value - limit_lo <= 5,
\* bounds included, whatever the earlier ticks were.
C11_ThresholdCheck ==
    Len(alarmBranch) = 4 =>
        /\ (alarmBranch[1] # "none") <=> Near(seen[1], HeightMin, HeightMax)
        /\ (alarmBranch[2] # "none") <=> Near(seen[2], TrendMin, TrendMax)
        /\ (alarmBranch[3] # "none") <=> Near(seen[3], TiltMin, TiltMax)
        /\ (alarmBranch[4] # "none") <=> Near(seen[4], BackMin, BackMax)

\* the second tick has evaluated height 135 (alert) and trend 39.9 (none)
C11_Witness ==
    /\ threadPc = "sleep" /\ ticks = 2
    /\ seen[1] = 1350 /\ alarmBranch[1] = "high"
    /\ seen[2] = 399 /\ alarmBranch[2] = "none"

Presence(b) == IF b THEN "present" ELSE "absent"

\* what a tick has to publish for the table vt: one presence per axis
AlertUpdates(vt) ==
    { [axis |-> "height",
       presence |-> Presence(Near(vt.height, HeightMin, HeightMax))],
      [axis |-> "trend",
       presence |-> Presence(Near(vt.trend, TrendMin, TrendMax))],
      [axis |-> "tilt",
       presence |-> Presence(Near(vt.tilt, TiltMin, TiltMax))],
      [axis |-> "backplate",
       presence |-> Presence(Near(vt.backplate, BackMin, BackMax))] }

\* C12: at the end of every tick the alert update committed by the tick
\* carries, for each axis, the presence the threshold check gives for the
\* axis' current value.
C12_AlertsPublished ==
    threadPc = "sleep" =>
        \E i \in 1..Len(commits) :
            /\ commits[i].step = "alarms"
            /\ commits[i].updates = AlertUpdates(virtualTable)

StepsOf(cs) == [i \in 1..Len(cs) |-> cs[i].step]

\* C13: a tick is the value publish followed by the alert evaluation and
\* publish, each once: at every point of the loop the commits of the current
\* tick are the prefix of <<values, alarms>> that belongs to that point.
C13_TickOrder ==
    /\ threadPc = "applyChanges" => StepsOf(commits) = <<>> /\ seen = <<>>
    /\ threadPc \in {"alarmsHeight", "alarmsTrend", "alarmsTilt",
                     "alarmsBack", "alarmsCommit"}
           => StepsOf(commits) = <<"values">>
    /\ threadPc = "sleep"
           => StepsOf(commits) = <<"values", "alarms">> /\ Len(seen) = 4
    /\ (threadPc \in {"test", "exited"} /\ ticks >= 1)
           => StepsOf(commits) = <<"values", "alarms">>
    /\ ticks = 0 => commits = <<>>

\* the second tick has made both of its commits
C13_Witness ==
    /\ threadPc = "sleep" /\ ticks >= 2
    /\ StepsOf(commits) = <<"values", "alarms">>

\* C14 as stated: the commits of a tick are one update access committed
\* once, so the values and the alerts of a tick succeed or fail together.
C14_SingleTransaction ==
    threadPc = "sleep" =>
        \A i, j \in 1..Len(commits) :
            /\ commits[i].access = commits[j].access
            /\ commits[i].success = commits[j].success

\* C14: a tick makes two update accesses and commits each of them once:
\* the one of applyChanges, then the one of applyAlarms.
C14_TwoTransactions ==
    threadPc = "sleep" =>
        /\ Len(commits) = 2
        /\ commits[1].access # commits[2].access
        /\ commits[1].step = "values" /\ commits[2].step = "alarms"

\* a tick whose value commit succeeded and whose alert commit failed
C14_Witness ==
    /\ threadPc = "sleep"
    /\ Len(commits) = 2
    /\ commits[1].success /\ ~commits[2].success

RECURSIVE ErrorsOf(_)
ErrorsOf(cs) ==
    IF cs = <<>> THEN <<>>
    ELSE IF Head(cs).success THEN ErrorsOf(Tail(cs))
    ELSE <<Head(cs).error>> \o ErrorsOf(Tail(cs))

\* C15: at the end of a tick either both commits succeeded, or the tick has
\* logged one line per failed commit with the error text that commit
\* returned; each step was committed once, a failed one not again.
C15_FailureLogged ==
    threadPc = "sleep" =>
        /\ [i \in 1..Len(tickLog) |-> tickLog[i].error] = ErrorsOf(commits)
        /\ Len(commits) = 2
        /\ (tickLog = <<>>) <=> (commits[1].success /\ commits[2].success)

\* a tick whose alert commit alone failed has logged its error text
C15_Witness ==
    /\ threadPc = "sleep"
    /\ Len(commits) = 2 /\ commits[1].success /\ ~commits[2].success
    /\ Len(tickLog) = 1 /\ tickLog[1].error = commits[2].error

\* C16: after a tick with a failed commit, unless the stop flag is set, the
\* loop starts a further tick.
C16_NextTickAfterFailure ==
    (threadPc = "sleep" /\ Failed(commits))
        ~> (~m_running \/ (threadPc = "applyChanges" /\ prevTickFailed))

\* a tick has started after a tick that failed, the flag still true
C16_Witness ==
    /\ threadPc = "applyChanges" /\ prevTickFailed /\ m_running
    /\ commits = <<>>

\* C17: once the stop flag is set the background thread leaves its loop and
\* ends; main gets past stop() (to the resets and its return) only when the
\* thread it started has ended.
C17_CooperativeShutdown ==
    /\ []((mainPc \in {"reset", "returned"} /\ threadPc # "notStarted")
             => threadPc = "exited")
    /\ (~m_running ~> threadPc = "exited")

\* main has returned after stopping and joining the thread
C17_Witness ==
    /\ mainPc = "returned" /\ ~m_running
    /\ threadPc = "exited" /\ ticks >= 1

C19_OnlyDispatcherWrites ==
    [][(\/ threadPc' # threadPc
        \/ commits' # commits
        \/ (/\ tx.kind \in {"SetContext", "SetAlert"}
            /\ tx.pc = "running" /\ tx'.pc = "returned"))
           => virtualTable' = virtualTable]_vars

\* a set-context request has been handled and a tick has completed
C19_Witness ==
    /\ Handled("SetContext") /\ tx.state = "Fin"
    /\ threadPc = "sleep"
    /\ virtualTable = tx.before

\* the request the displayed menu entry of a character stands for
MenuEntry(c) ==
    CASE c = "a" -> [api |-> "activate", operation |-> IncHeight, value |-> ""]
      [] c = "b" -> [api |-> "activate", operation |-> DecHeight, value |-> ""]
      [] c = "c" -> [api |-> "activate", operation |-> IncTrend, value |-> ""]
      [] c = "d" -> [api |-> "activate", operation |-> DecTrend, value |-> ""]
      [] c = "e" -> [api |-> "activate", operation |-> IncTilt, value |-> ""]
      [] c = "f" -> [api |-> "activate", operation |-> DecTilt, value |-> ""]
      [] c = "g" -> [api |-> "activate", operation |-> IncBack, value |-> ""]
      [] c = "h" -> [api |-> "activate", operation |-> DecBack, value |-> ""]
      [] c = "k" -> [api |-> "activate", operation |-> ApplyPredefined,
                     value |-> ""]
      [] c = "i" -> [api |-> "setStringMetricValue",
                     operation |-> SetStringPredefined, value |-> "NullLevel"]
      [] c = "j" -> [api |-> "setStringMetricValue",
                     operation |-> SetStringPredefined, value |-> "BeachChair"]
      [] OTHER -> NoRequest

RECURSIVE MenuSends(_)
MenuSends(cs) ==
    IF cs = <<>> THEN <<>>
    ELSE LET c == Head(cs)
         IN (IF c = "y" THEN <<"requestStates">>
             ELSE IF MenuEntry(c) = NoRequest THEN <<>>
             ELSE <<MenuEntry(c)>>) \o MenuSends(Tail(cs))

\* requestStates is compared by its api only
SentView ==
    [i \in 1..Len(sent) |->
        IF sent[i].api = "requestStates" THEN "requestStates" ELSE sent[i]]

\* C20: the requests sent are, in order, one request per entered character
\* 'a'..'k' (the activate or set-string of its menu entry) and 'y' (a state
\* request) and none for any other character; the loop has ended iff 'z'
\* was entered.
C20_MenuLoop ==
    /\ SentView = MenuSends(entered)
    /\ (cPc = "done") <=> (\E i \in 1..Len(entered) : entered[i] = "z")

\* 'g' then 'z' were entered: one increase-backplate activate, loop ended
C20_Witness ==
    /\ entered = <<"g", "z">>
    /\ cPc = "done"
    /\ sent = <<sendActivate(IncBack)>>

\* C21: when resolving the endpoint or constructing the consumer throws,
\* main has logged "Discovery failed: ..." and returned -1 with no callback
\* registered and no menu character read; every request that was sent went
\* through a consumer object that had been created.
C21_DiscoveryFailure ==
    /\ (cPc = "returned") =>
          /\ cExit = "-1"
          /\ \E what \in WhatTexts :
                cLog[Len(cLog)] = "Discovery failed: " \o what
          /\ ~consumerCreated
          /\ ~callbacksRegistered
          /\ entered = <<>>
          /\ sent = <<>>
    /\ (callbacksRegistered \/ entered # <<>> \/ sent # <<>>) =>
          consumerCreated /\ cExit = "none"

\* the endpoint was found and the constructor of the consumer threw
C21_Witness ==
    /\ cPc = "returned"
    /\ cLog = <<"Found EPR. Connecting to Provider",
                "Discovery failed: connection refused">>
    /\ cExit = "-1"

\* C22: onAlert logs from the first report part only: nothing when the
\* report has no part or the first part has no limit alert condition state
\* (whatever alert signals it or a later part carries), else one line per
\* limit alert condition state of the first part followed by one line per
\* alert signal state of the first part.
C22_FirstPartOnly ==
    lastReport.status = "delivered" =>
       LET parts == lastReport.parts
           nl == IF parts = <<>> THEN 0 ELSE Len(parts[1].limits)
           ns == IF nl = 0 THEN 0 ELSE Len(parts[1].signals)
       IN  /\ Len(alertLog) = nl + ns
           /\ \A i \in 1..nl :
                 /\ alertLog[i].kind = "limit alert state"
                 /\ alertLog[i].handle = parts[1].limits[i].handle
           /\ \A i \in 1..ns :
                 /\ alertLog[nl + i].kind = "alert signal"
                 /\ alertLog[nl + i].handle = parts[1].signals[i].handle

\* a report whose first part has an alert signal and no limit alert
\* condition, and whose second part has both, was delivered: no output
C22_Witness ==
    /\ lastReport.status = "delivered"
    /\ Len(lastReport.parts) = 2
    /\ lastReport.parts[1].limits = <<>>
    /\ lastReport.parts[1].signals # <<>>
    /\ lastReport.parts[2].limits # <<>>
    /\ lastReport.parts[2].signals # <<>>
    /\ alertLog = <<>>

\* C23: after loadMdib threw, main has returned -1 with no handler
\* registered, no ValueUpdater constructed and no thread created; after
\* loadMdib returned false, main goes on as after true: it has not returned
\* -1, the handlers are registered once the registration step is passed and
\* the thread exists once run() is passed.
C23_LoadMdibOutcomes ==
    /\ loadResult = "threw" =>
          /\ mainPc = "returned" /\ exitCode = "-1"
          /\ ~registered
          /\ updater = "none" /\ threadPc = "notStarted"
    /\ loadResult = "notLoaded" =>
          /\ exitCode # "-1"
          /\ mainPc # "register" => registered
          /\ mainPc \notin {"register", "run"} =>
                updater # "none" /\ threadPc # "notStarted"

\* loadMdib returned false, the handlers are registered and the thread is
\* in the sleep of its first tick
C23_Witness ==
    /\ loadResult = "notLoaded"
    /\ registered
    /\ mainPc = "waitKey"
    /\ threadPc = "sleep" /\ ticks = 1

\* C24: while the provider is destroyed the background thread is not
\* running (never created, or returned and joined), and every step of a
\* tick, each makeUpdateAccess and commit included, is taken while the
\* provider exists.
C24_NoUseAfterReset ==
    /\ [](~providerAlive => threadPc \in {"notStarted", "exited"} /\ ~joinable)
    /\ [][(threadPc' # threadPc /\ threadPc' \notin {"test", "exited"})
             => providerAlive /\ providerAlive']_vars

\* main has destroyed the provider after a tick that committed twice, and
\* the thread was joined before
C24_Witness ==
    /\ ~providerAlive /\ exitCode = "0"
    /\ threadPc = "exited" /\ ~joinable
    /\ Len(commits) = 2

\* C26: a tick starts only from the test of the flag and only when the flag
\* is true; the thread created by run() is at that test, with no wait
\* before it; with the flag false no tick starts, so only a tick that was
\* under way when stop() cleared the flag still runs to its end.
C26_FlagTestedBeforeTick ==
    /\ [][threadPc' = "applyChanges" /\ threadPc # "applyChanges"
             => threadPc = "test" /\ m_running]_vars
    /\ [][threadPc = "notStarted" /\ threadPc' # "notStarted"
             => threadPc' = "test" /\ ticks' = 0]_vars
    /\ [][threadPc = "test" /\ threadPc' # "test"
             => threadPc' = IF m_running THEN "applyChanges" ELSE "exited"]_vars
    /\ [][~m_running => ~m_running' /\ ticks' = ticks]_vars

\* stop() has cleared the flag while the second tick is between its two
\* commits
C26_Witness ==
    /\ ~m_running /\ mainPc = "join"
    /\ threadPc = "alarmsTilt" /\ ticks = 2

\* C25: m_thread.join() is invoked at most once, and never on a thread
\* that is not joinable (one that run() has not started, or one that was
\* joined already).
C25_JoinedOnceAfterStart == joins <= 1 /\ ~joinError

====
